---------------------------- MODULE Spec2Model ----------------------------
(***************************************************************************)
(* A model of bot/exts/info/doc/_cog.py: the page-batched parse cache      *)
(* (CachedParser), the inventory merge (DocCog.update_single) and the      *)
(* refresh coordination (DocCog.refresh_inventory, the command lock and    *)
(* REFRESH_EVENT).                                                         *)
(*                                                                         *)
(* The program runs on one asyncio event loop: the code between two awaits *)
(* is one atomic step, and every await whose awaitable is not yet done is  *)
(* a point where any other ready coroutine may run.  Each action below is  *)
(* one such step of one coroutine.                                         *)
(***************************************************************************)
EXTENDS Naturals, Sequences, FiniteSets, TLC

-----------------------------------------------------------------------------
(* Bounds of the model *)

\* get_markdown calls made in one behaviour of the parser on its own
MaxCalls == 2
\* CachedParser.clear() calls made in one behaviour of the parser on its own
MaxClears == 2

\* entries merged by update_single in one behaviour of the merge on its own
MaxEntries == 3
\* update_single calls in one behaviour of the merge on its own
MaxUpdates == 2
\* commands received after init_refresh_inventory in one behaviour
MaxCommands == 1
\* get_symbol_embed calls in one behaviour of the cog
MaxLookups == 1

None == "None"

-----------------------------------------------------------------------------
(* Strings.  A string the program takes apart or puts together is a         *)
(* sequence of tokens: a separator character (".", ":", "#", "/") is a      *)
(* token of its own, any other token is text without separators.            *)
(* "std:label" is <<"std", ":", "label">>, "label.bind" is                  *)
(* <<"label", ".", "bind">>.                                                *)

Str(text) == <<text>>

\* sep in s
Contains(s, sep) == \E i \in 1..Len(s) : s[i] = sep

\* The position of the first sep in s; Len(s) + 1 when there is none
Find(s, sep) ==
    IF Contains(s, sep)
    THEN CHOOSE i \in 1..Len(s) : s[i] = sep /\ \A j \in 1..(i - 1) : s[j] # sep
    ELSE Len(s) + 1

\* s.split(sep): the list of the parts of s between the separators
RECURSIVE Split(_, _)
Split(s, sep) ==
    IF ~Contains(s, sep) THEN <<s>>
    ELSE <<SubSeq(s, 1, Find(s, sep) - 1)>>
         \o Split(SubSeq(s, Find(s, sep) + 1, Len(s)), sep)

\* s.partition(sep): (before, sep, after), or (s, "", "") without sep
Partition(s, sep) ==
    IF Contains(s, sep)
    THEN <<SubSeq(s, 1, Find(s, sep) - 1), <<sep>>,
           SubSeq(s, Find(s, sep) + 1, Len(s))>>
    ELSE <<s, <<>>, <<>>>>

\* f"{a}.{b}"
Dotted(a, b) == a \o <<".">> \o b

-----------------------------------------------------------------------------
(* Module constants *)

FORCE_PREFIX_GROUPS ==
    {Str("2to3fixer"), Str("token"), Str("label"), Str("pdbcommand"), Str("term")}
PRIORITY_PACKAGES == {Str("python")}
COMMAND_LOCK_SINGLETON == "inventory refresh"

-----------------------------------------------------------------------------
(* DocItem and QueueItem *)

DocItem(package, group, base_url, relative_url_path, symbol_id) ==
    [package |-> package, group |-> group, base_url |-> base_url,
     relative_url_path |-> relative_url_path, symbol_id |-> symbol_id]

\* DocItem.url
url(doc_item) == doc_item.base_url \o doc_item.relative_url_path

QueueItem(symbol, soup) == [symbol |-> symbol, soup |-> soup]

\* The page the HTTP session returns for a URL, as parsed by BeautifulSoup
Soup(u) == [page |-> u]

\* get_symbol_markdown(soup, item): the markdown of item cut from soup
get_symbol_markdown(soup, item) == [markdown_of |-> item, from |-> soup]

-----------------------------------------------------------------------------
(* The documentation sites of the model *)

\* A package of bot/documentation-links
Package(name, base_url, inventory_url) ==
    [package |-> Str(name), base_url |-> Str(base_url),
     inventory_url |-> Str(inventory_url)]

PkgA == Package("libA", "bA/", "bA/objects.inv")
PkgPy == Package("python", "bP/", "bP/objects.inv")
Packages == {PkgA, PkgPy}

\* One (group, (symbol, relative_doc_url)) of an inventory, in the order the
\* loops at lines 220-221 visit them
Entry(group, symbol, relative_doc_url) ==
    [group |-> group, symbol |-> symbol, relative_doc_url |-> relative_doc_url]

PyFunction == <<"py", ":", "function">>
PyClass == <<"py", ":", "class">>
StdLabel == <<"std", ":", "label">>

\* The inventory libA's site serves: two symbols on one page, one on another
InvA ==
    <<Entry(PyFunction, Str("bind"), <<"p1", "#", "a">>),
      Entry(PyFunction, Str("open"), <<"p1", "#", "b">>),
      Entry(PyClass, Str("K"), <<"p2", "#", "d">>)>>

\* The inventory of libA with a group that has no colon
InvABad ==
    <<Entry(PyFunction, Str("bind"), <<"p1", "#", "a">>),
      Entry(Str("label"), Str("x"), <<"p1", "#", "x">>)>>

\* The inventory python's site serves
InvPy == <<Entry(PyFunction, Str("open"), <<"o", "#", "open">>)>>

\* What fetch_inventory(inventory_url) may return when it does not fail
Served(inventory_url) ==
    IF inventory_url = PkgA.inventory_url THEN {InvA, InvABad} ELSE {InvPy}

\* The entries an inventory may hold in the merge on its own: two names, one
\* of them made like a composite name, in a group that is prefixed by force
\* and in one that is not; a name with a slash; a group without a colon
RelativeUrl(symbol) ==
    IF symbol = Str("bind") THEN <<"p1", "#", "a">>
    ELSE IF symbol = <<"a", "/", "b">> THEN <<"p2", "#", "c">>
    ELSE <<"p3">>
Entries ==
    {Entry(g, s, RelativeUrl(s)) :
        g \in {PyFunction, StdLabel}, s \in {Str("bind"), <<"label", ".", "bind">>}}
    \cup {Entry(PyFunction, <<"a", "/", "b">>, RelativeUrl(<<"a", "/", "b">>)),
          Entry(Str("label"), Str("bind"), RelativeUrl(Str("bind")))}

\* The DocItems update_single builds from libA's inventory
ItemA == DocItem(Str("libA"), Str("function"), Str("bA/"), Str("p1"), Str("a"))
ItemB == DocItem(Str("libA"), Str("function"), Str("bA/"), Str("p1"), Str("b"))
ItemD == DocItem(Str("libA"), Str("class"), Str("bA/"), Str("p2"), Str("d"))
Items == {ItemA, ItemB, ItemD}

\* The markdown of an item, as get_markdown returns it
MarkdownOf(item) == <<get_symbol_markdown(Soup(url(item)), item)>>

-----------------------------------------------------------------------------
VARIABLES
    \* CachedParser
    _queue,         \* _queue: list of QueueItem, popped at the end
    _page_symbols,  \* _page_symbols: url -> reference to a list object
    lists,          \* the list objects _page_symbols refers to
    _item_futures,  \* _item_futures: insertion-ordered dict item -> future
    futures,        \* the asyncio.Future objects created by get_markdown
    _parse_task,    \* _parse_task: 0 (None) or a reference to a task
    tasks,          \* the _parse_queue tasks created so far
    \* module globals
    doc_cache,      \* the items stored in the DocRedisCache
    REFRESH_EVENT,  \* asyncio.Event: TRUE when set
    \* DocCog
    doc_symbols, renamed_symbols, base_urls, scheduled_inventories,
    inventory_scheduler,  \* Scheduler: task id -> the scheduled retry
    \* collaborators
    lock_holder,    \* the command holding the lock "inventory refresh", 0: free
    links,          \* the list of packages of the API's bot/documentation-links
    retried,        \* what the scheduled retries that ran to their end fetched
    fetches,        \* url -> number of http_session.get(url) requests made
    extractions,    \* item -> number of get_symbol_markdown calls made
    logged,         \* the items of the errors logged at line 129
    \* coroutines and their positions
    calls,          \* get_symbol_embed / get_markdown calls
    clears,         \* CachedParser.clear() calls
    cmds,           \* init_refresh_inventory and the commands received
    updates         \* update_single calls

parser_vars == <<_queue, _page_symbols, lists, _item_futures, futures,
                 _parse_task, tasks, doc_cache>>
cog_vars == <<REFRESH_EVENT, doc_symbols, renamed_symbols, base_urls,
              scheduled_inventories, inventory_scheduler, lock_holder, links,
              retried, cmds, updates>>
vars == <<_queue, _page_symbols, lists, _item_futures, futures, _parse_task,
          tasks, doc_cache, REFRESH_EVENT, doc_symbols, renamed_symbols,
          base_urls, scheduled_inventories, inventory_scheduler, lock_holder,
          links, retried, fetches, extractions, logged, calls, clears, cmds,
          updates>>

-----------------------------------------------------------------------------
(* Lists and dicts *)

\* list.index(item) on _queue, with QueueItem.__eq__(DocItem): the first
\* position whose symbol equals item; 0 stands for ValueError
Index(q, item) ==
    IF \E i \in 1..Len(q) : q[i].symbol = item
    THEN CHOOSE i \in 1..Len(q) :
            /\ q[i].symbol = item
            /\ \A j \in 1..(i - 1) : q[j].symbol # item
    ELSE 0

\* list.pop(i)
RemoveAt(q, i) == SubSeq(q, 1, i - 1) \o SubSeq(q, i + 1, Len(q))

\* _item_futures.get(item): the future stored under item, 0 for None
FutureOf(d, item) ==
    IF \E i \in 1..Len(d) : d[i].item = item
    THEN (d[CHOOSE i \in 1..Len(d) : d[i].item = item]).fut
    ELSE 0

\* [QueueItem(symbol, soup) for symbol in symbols_to_queue]
QueueItems(symbols, soup) == [i \in 1..Len(symbols) |-> QueueItem(symbols[i], soup)]

\* dict without one key
Without(f, k) == [x \in DOMAIN f \ {k} |-> f[x]]

\* dict.get(k): <<>> is None
Get(f, k) == IF k \in DOMAIN f THEN <<f[k]>> ELSE <<>>

\* f[k] = v
Put(f, k, v) == [x \in DOMAIN f \cup {k} |-> IF x = k THEN v ELSE f[x]]

\* The number counted under k, and the counter with one more under k
Count(f, k) == IF k \in DOMAIN f THEN f[k] ELSE 0
Counted(f, k) == Put(f, k, Count(f, k) + 1)


\* An Optional value: <<>> is None, <<v>> is v
Some(v) == <<v>>

-----------------------------------------------------------------------------
(* CachedParser.get_markdown *)

\* A call that has not got its markdown yet: it waits for the page or for a
\* future that is not done
Unresolved(c) ==
    \/ calls[c].pc = "fetch"
    \/ calls[c].pc = "await" /\ ~futures[calls[c].fut].done

\* The frame of a call for item: its position (pc), symbols_to_queue (stq,
\* a reference to a list), the future it awaits, what it returned or raised;
\* overlapped records that a call for the same item was unresolved when this
\* one began.  A call made by get_symbol_embed(symbol) has the symbol and the
\* refresh_inventory that was in progress when it read doc_symbols (0: none).
NewCall(item) ==
    [item |-> item, pc |-> "start", stq |-> 0, fut |-> 0, result |-> <<>>,
     error |-> None, symbol |-> <<>>, refresh |-> 0,
     overlapped |-> \E c \in DOMAIN calls :
                        calls[c].item = item /\ Unresolved(c)]

Raised(cs, c, error) == [cs EXCEPT ![c].pc = "raised", ![c].error = error]

\* _move_to_front: pop the item at item_index and append it; the caller has
\* established that Index(q, item) is not 0 (list.index did not raise)
_move_to_front(q, item) ==
    LET item_index == Index(q, item)
    IN  Append(RemoveAt(q, item_index), q[item_index])

\* Lines 110-113 for call c of cs, with the queue being q: reprioritise,
\* create the future if the item has none, await it.  Awaiting a future
\* that is already done returns its result without suspending.
MoveAndAwait(c, cs, q) ==
    LET item == cs[c].item
        f == FutureOf(_item_futures, item)
        fid == IF f = 0 THEN Len(futures) + 1 ELSE f
        futs == IF f = 0
                THEN Append(futures, [done |-> FALSE, result |-> <<>>])
                ELSE futures
    IN  IF Index(q, item) = 0
        THEN /\ _queue' = q
             /\ calls' = Raised(cs, c, "ValueError")
             /\ UNCHANGED <<_item_futures, futures>>
        ELSE /\ _queue' = _move_to_front(q, item)
             /\ futures' = futs
             /\ _item_futures' =
                    IF f = 0
                    THEN Append(_item_futures, [item |-> item, fut |-> fid])
                    ELSE _item_futures
             /\ calls' =
                    IF futs[fid].done
                    THEN [cs EXCEPT ![c].pc = "returned", ![c].fut = fid,
                                    ![c].result = futs[fid].result]
                    ELSE [cs EXCEPT ![c].pc = "await", ![c].fut = fid]

\* Line 99-101 and, when the page was fetched before, lines 110-113: the
\* call of get_markdown(doc_item) up to its first suspension
EnterGetMarkdown(c, cs) ==
    LET doc_item == cs[c].item
    IN  IF url(doc_item) \in DOMAIN _page_symbols
        THEN /\ calls' = [cs EXCEPT ![c].pc = "fetch",
                                    ![c].stq = _page_symbols[url(doc_item)]]
             /\ fetches' = Counted(fetches, url(doc_item))
             /\ UNCHANGED <<_queue, _item_futures, futures>>
        ELSE /\ MoveAndAwait(c, cs, _queue)
             /\ UNCHANGED fetches

GetMarkdownCall(doc_item) ==
    /\ Len(calls) < MaxCalls
    /\ EnterGetMarkdown(Len(calls) + 1, Append(calls, NewCall(doc_item)))
    /\ UNCHANGED <<_page_symbols, lists, _parse_task, tasks, doc_cache,
                   clears, extractions, logged>>
    /\ UNCHANGED cog_vars

\* Line 107 without its test: a worker is created at every page fetch
NoParseTaskUnchecked == TRUE

\* Line 107: a worker is created only when no task is recorded
NoParseTask == _parse_task = 0

\* Lines 101-113: the page arrived.  The symbols of the list read at line 99
\* are queued, the page is deleted from _page_symbols (KeyError when another
\* coroutine deleted it or cleared the dict meanwhile), the worker is created
\* when there is none, then lines 110-113.
GetMarkdownFetched(c) ==
    /\ c \in DOMAIN calls
    /\ calls[c].pc = "fetch"
    /\ LET doc_item == calls[c].item
           soup == Soup(url(doc_item))
           q == _queue \o QueueItems(lists[calls[c].stq], soup)
       IN  IF url(doc_item) \notin DOMAIN _page_symbols
           THEN /\ _queue' = q
                /\ calls' = Raised(calls, c, "KeyError")
                /\ UNCHANGED <<_page_symbols, _item_futures, futures,
                               _parse_task, tasks>>
           ELSE /\ _page_symbols' = Without(_page_symbols, url(doc_item))
                /\ IF NoParseTask
                   THEN /\ tasks' = Append(tasks,
                               [pc |-> "created", item |-> <<>>,
                                must_cancel |-> FALSE, outcome |-> None])
                        /\ _parse_task' = Len(tasks) + 1
                   ELSE UNCHANGED <<_parse_task, tasks>>
                /\ MoveAndAwait(c, calls, q)
    /\ UNCHANGED <<lists, doc_cache, clears, fetches, extractions, logged>>
    /\ UNCHANGED cog_vars

\* Line 100-101: the page request fails; the error leaves get_markdown
GetMarkdownFetchFailed(c) ==
    /\ c \in DOMAIN calls
    /\ calls[c].pc = "fetch"
    /\ calls' = Raised(calls, c, "ClientError")
    /\ UNCHANGED <<parser_vars, clears, fetches, extractions, logged>>
    /\ UNCHANGED cog_vars

\* Line 113: the awaited future is done, the call returns its result
GetMarkdownReturn(c) ==
    /\ c \in DOMAIN calls
    /\ calls[c].pc = "await"
    /\ futures[calls[c].fut].done
    /\ calls' = [calls EXCEPT ![c].pc = "returned",
                              ![c].result = futures[calls[c].fut].result]
    /\ UNCHANGED <<parser_vars, clears, fetches, extractions, logged>>
    /\ UNCHANGED cog_vars

-----------------------------------------------------------------------------
(* CachedParser._parse_queue, the background worker task *)

\* A coroutine suspended on a future that is done is in the event loop's ready
\* queue: it runs before a timer that has not expired yet
WaiterReady ==
    \/ \E c \in DOMAIN calls :
            calls[c].pc = "await" /\ futures[calls[c].fut].done
    \/ \E k \in DOMAIN clears :
            clears[k].pc = "await" /\ futures[clears[k].fut].done

\* The finally clause of _parse_queue (lines 134-136)
Finished(ts, t, outcome) == [ts EXCEPT ![t].pc = "finished", ![t].outcome = outcome]

\* The task runs from its creation or from asyncio.sleep(0.1) (line 133) to
\* its next await.  A task cancelled before its first step never enters the
\* try statement, so its finally clause does not run; cancelled in the sleep,
\* CancelledError passes through the finally clause.  Otherwise: line 123, and
\* lines 124-127 up to the await of doc_cache.set, or lines 128-129 and 133
\* when get_symbol_markdown raises.
ParseQueueStep(t) ==
    /\ t \in DOMAIN tasks
    /\ tasks[t].pc \in {"created", "sleep"}
    /\ IF tasks[t].must_cancel
       THEN /\ tasks' = Finished(tasks, t, "cancelled")
            /\ _parse_task' = IF tasks[t].pc = "created" THEN _parse_task ELSE 0
            /\ UNCHANGED <<_queue, extractions, logged>>
       ELSE /\ tasks[t].pc = "sleep" => ~WaiterReady
            /\ IF _queue = <<>>
               THEN /\ tasks' = Finished(tasks, t, "returned")
                    /\ _parse_task' = 0
                    /\ UNCHANGED <<_queue, extractions, logged>>
               ELSE LET popped == _queue[Len(_queue)]
                    IN  /\ _queue' = SubSeq(_queue, 1, Len(_queue) - 1)
                        /\ extractions' = Counted(extractions, popped.symbol)
                        /\ \E parsed \in BOOLEAN :
                               /\ tasks' = [tasks EXCEPT
                                      ![t].pc = IF parsed THEN "set" ELSE "sleep",
                                      ![t].item = IF parsed THEN Some(popped) ELSE <<>>]
                               /\ logged' = IF parsed THEN logged
                                             ELSE logged \cup {popped.symbol}
                        /\ UNCHANGED _parse_task
    /\ UNCHANGED <<_page_symbols, lists, _item_futures, futures, doc_cache,
                   calls, clears, fetches>>
    /\ UNCHANGED cog_vars

\* Lines 127-133: doc_cache.set(item, markdown) ends.  When it raised, the
\* error is logged (line 129).  When it returned, the future of the item, if
\* there is one, gets the markdown; set_result on a future that is done raises
\* InvalidStateError, which no except clause catches.  A cancelled task gets
\* CancelledError here (the write is done or not), which is not an Exception.
ParseQueueCacheSet(t) ==
    /\ t \in DOMAIN tasks
    /\ tasks[t].pc = "set"
    /\ LET item == tasks[t].item[1].symbol
           markdown == get_symbol_markdown(tasks[t].item[1].soup, item)
           future == FutureOf(_item_futures, item)
       IN  IF tasks[t].must_cancel
           THEN /\ tasks' = Finished(tasks, t, "cancelled")
                /\ _parse_task' = 0
                /\ \E written \in BOOLEAN :
                       doc_cache' = IF written THEN doc_cache \cup {item} ELSE doc_cache
                /\ UNCHANGED <<futures, logged>>
           ELSE \E stored \in BOOLEAN :
                  IF ~stored
                  THEN /\ tasks' = [tasks EXCEPT ![t].pc = "sleep", ![t].item = <<>>]
                       /\ logged' = logged \cup {item}
                       /\ UNCHANGED <<_parse_task, doc_cache, futures>>
                  ELSE /\ doc_cache' = doc_cache \cup {item}
                       /\ UNCHANGED logged
                       /\ IF future # 0 /\ futures[future].done
                          THEN /\ tasks' = Finished(tasks, t, "InvalidStateError")
                               /\ _parse_task' = 0
                               /\ UNCHANGED futures
                          ELSE /\ tasks' = [tasks EXCEPT ![t].pc = "sleep",
                                                         ![t].item = <<>>]
                               /\ futures' =
                                      IF future = 0 THEN futures
                                      ELSE [futures EXCEPT ![future] =
                                              [done |-> TRUE, result |-> Some(markdown)]]
                               /\ UNCHANGED _parse_task
    /\ UNCHANGED <<_queue, _page_symbols, lists, _item_futures, calls, clears,
                   fetches, extractions>>
    /\ UNCHANGED cog_vars

-----------------------------------------------------------------------------
(* CachedParser.add_item and CachedParser.clear *)

\* self._page_symbols[doc_item.url].append(doc_item) on a defaultdict(list):
\* the page's list object is created when the page has none
add_item(pages, doc_item) ==
    IF url(doc_item) \in DOMAIN pages.ps
    THEN [ps |-> pages.ps,
          ls |-> [pages.ls EXCEPT ![pages.ps[url(doc_item)]] = Append(@, doc_item)]]
    ELSE [ps |-> (url(doc_item) :> (Len(pages.ls) + 1)) @@ pages.ps,
          ls |-> Append(pages.ls, <<doc_item>>)]

\* The first position from pos on of the dict whose future is not done; 0
\* when there is none
NextPending(pos) ==
    IF \E i \in pos..Len(_item_futures) : ~futures[_item_futures[i].fut].done
    THEN CHOOSE i \in pos..Len(_item_futures) :
            /\ ~futures[_item_futures[i].fut].done
            /\ \A j \in pos..(i - 1) : futures[_item_futures[j].fut].done
    ELSE 0

\* clear() without the cancellation of line 160
NotCancelled(ts, t) == ts

\* Task.cancel() on the task of _parse_task: a task that is finished is left
\* alone, any other gets CancelledError at its next step
Cancelled(ts, t) ==
    IF ts[t].pc = "finished" THEN ts ELSE [ts EXCEPT ![t].must_cancel = TRUE]

\* Lines 157-163 of call k of cl, from position pos of the iteration over
\* _item_futures.values(): suspend at the first future that is not done, or
\* cancel the worker and empty the three containers
ClearFrom(k, cl, pos, size) ==
    IF NextPending(pos) # 0
    THEN /\ clears' = [cl EXCEPT ![k] =
                          [pc |-> "await", pos |-> NextPending(pos), size |-> size,
                           fut |-> _item_futures[NextPending(pos)].fut]]
         /\ UNCHANGED <<_queue, _page_symbols, _item_futures, tasks>>
    ELSE /\ clears' = [cl EXCEPT ![k].pc = "returned"]
         /\ tasks' = IF _parse_task # 0 THEN Cancelled(tasks, _parse_task) ELSE tasks
         /\ _queue' = <<>>
         /\ _page_symbols' = <<>>
         /\ _item_futures' = <<>>

NewClear == [pc |-> "start", pos |-> 0, size |-> 0, fut |-> 0]

\* clear() is called: it runs to its first suspension
EnterClear(k, cl) == ClearFrom(k, cl, 1, Len(_item_futures))

\* Line 158 resumes: the awaited future is done.  The dict iterator raises
\* RuntimeError when the dict changed size since the iteration began.
ResumeClear(k) ==
    /\ k \in DOMAIN clears
    /\ clears[k].pc = "await"
    /\ futures[clears[k].fut].done
    /\ IF Len(_item_futures) # clears[k].size
       THEN /\ clears' = [clears EXCEPT ![k].pc = "raised"]
            /\ UNCHANGED <<_queue, _page_symbols, _item_futures, tasks>>
       ELSE ClearFrom(k, clears, clears[k].pos + 1, clears[k].size)
    /\ UNCHANGED <<lists, futures, _parse_task, doc_cache, calls, fetches,
                   extractions, logged>>

-----------------------------------------------------------------------------
(* The parser on its own: the items of Items registered by add_item, then   *)
(* any get_markdown and clear calls; clear is not called while it runs      *)

ClearCall ==
    /\ Len(clears) < MaxClears
    /\ \A k \in DOMAIN clears : clears[k].pc # "await"
    /\ EnterClear(Len(clears) + 1, Append(clears, NewClear))
    /\ UNCHANGED <<lists, futures, _parse_task, doc_cache, calls, fetches,
                   extractions, logged>>
    /\ UNCHANGED cog_vars

ClearResume(k) ==
    /\ ResumeClear(k)
    /\ UNCHANGED cog_vars

RECURSIVE Registered(_)
Registered(items) ==
    IF items = <<>> THEN [ps |-> <<>>, ls |-> <<>>]
    ELSE add_item(Registered(SubSeq(items, 1, Len(items) - 1)), items[Len(items)])

InitCog ==
    /\ REFRESH_EVENT = TRUE
    /\ doc_symbols = <<>>
    /\ renamed_symbols = {}
    /\ base_urls = <<>>
    /\ scheduled_inventories = {}
    /\ inventory_scheduler = <<>>
    /\ lock_holder = 0
    /\ links = <<>>
    /\ retried = {}
    /\ cmds = <<>>
    /\ updates = <<>>

InitParser ==
    /\ _queue = <<>>
    /\ _page_symbols = Registered(<<ItemA, ItemB, ItemD>>).ps
    /\ lists = Registered(<<ItemA, ItemB, ItemD>>).ls
    /\ _item_futures = <<>>
    /\ futures = <<>>
    /\ _parse_task = 0
    /\ tasks = <<>>
    /\ doc_cache = {}
    /\ calls = <<>>
    /\ clears = <<>>
    /\ fetches = <<>>
    /\ extractions = <<>>
    /\ logged = {}
    /\ InitCog

NextParser ==
    \/ \E doc_item \in Items : GetMarkdownCall(doc_item)
    \/ \E c \in 1..MaxCalls : GetMarkdownFetched(c)
    \/ \E c \in 1..MaxCalls : GetMarkdownFetchFailed(c)
    \/ \E c \in 1..MaxCalls : GetMarkdownReturn(c)
    \/ \E t \in 1..MaxCalls : ParseQueueStep(t)
    \/ \E t \in 1..MaxCalls : ParseQueueCacheSet(t)
    \/ ClearCall
    \/ \E k \in 1..MaxClears : ClearResume(k)

SpecParser == InitParser /\ [][NextParser]_vars

-----------------------------------------------------------------------------
(* The Scheduler of inventory_scheduler (bot.utils.scheduling)              *)

\* schedule_later(delay, task_id, coroutine): the coroutine, here
\* fetch_inventory(inventory_url), is run after delay seconds; a task_id that
\* is scheduled already is not scheduled again
schedule_later(scheduler, delay, task_id, inventory_url) ==
    IF task_id \in DOMAIN scheduler THEN scheduler
    ELSE Put(scheduler, task_id,
             [pc |-> "sleep", delay |-> delay, inventory_url |-> inventory_url])

\* cancel(task_id): the scheduled task is cancelled and forgotten
cancel(scheduler, task_id) == Without(scheduler, task_id)

-----------------------------------------------------------------------------
(* DocCog.update_single *)

\* The frame of update_single(api_package_name, base_url, inventory_url),
\* called by command owner (0: by nobody): its position, its return value or
\* the error it raised, the locals delay, symbol, original_symbol and
\* symbol_item, the entry the loops are at, the number n of entries read and
\* the groups visited.  failed_before records that the package was in
\* scheduled_inventories when the fetch failed: that it failed before with no
\* successful fetch and no refresh since.
NewUpdate(package, owner) ==
    [package |-> package.package, base_url |-> package.base_url,
     inventory_url |-> package.inventory_url, owner |-> owner, pc |-> "fetch",
     result |-> FALSE, error |-> None, delay |-> 0, failed_before |-> FALSE,
     n |-> 0, groups |-> {}, entry |-> <<>>, read |-> <<>>, symbol |-> <<>>,
     original_symbol |-> <<>>, symbol_item |-> <<>>]

\* doc_symbols, renamed_symbols and the pages of the item_fetcher as the loop
\* of update_single finds them, with the outcome and the locals of the last
\* iteration
Tables ==
    [doc_symbols |-> doc_symbols, renamed_symbols |-> renamed_symbols,
     ps |-> _page_symbols, ls |-> lists, outcome |-> "none",
     symbol |-> <<>>, original_symbol |-> <<>>, symbol_item |-> <<>>]

\* Line 227 without its test: no group is prefixed by force
NeverForcePrefixed(group_name) == FALSE

\* Line 227: the new entry's group is one of FORCE_PREFIX_GROUPS
ForcePrefixed(group_name) == group_name \in FORCE_PREFIX_GROUPS

\* Lines 227-245: symbol has the incumbent original_symbol.  The result is
\* the name the new item is stored under, and the tables.
Collide(st, api_package_name, group_name, symbol, original_symbol) ==
    IF ForcePrefixed(group_name)
    THEN [symbol |-> Dotted(group_name, symbol),
          doc_symbols |-> st.doc_symbols,
          renamed_symbols |-> st.renamed_symbols \cup {Dotted(group_name, symbol)}]
    ELSE IF original_symbol.group \in FORCE_PREFIX_GROUPS
    THEN LET candidate == Dotted(original_symbol.group, symbol)
             overridden_symbol ==
                 IF candidate \in st.renamed_symbols
                 THEN Dotted(api_package_name, candidate)
                 ELSE candidate
         IN  [symbol |-> symbol,
              doc_symbols |-> Put(st.doc_symbols, overridden_symbol, original_symbol),
              renamed_symbols |-> st.renamed_symbols \cup {overridden_symbol}]
    ELSE IF api_package_name \in PRIORITY_PACKAGES
    THEN [symbol |-> symbol,
          doc_symbols |-> Put(st.doc_symbols,
                              Dotted(original_symbol.package, symbol),
                              original_symbol),
          renamed_symbols |-> st.renamed_symbols \cup {symbol}]
    ELSE [symbol |-> Dotted(api_package_name, symbol),
          doc_symbols |-> st.doc_symbols,
          renamed_symbols |-> st.renamed_symbols
                                \cup {Dotted(api_package_name, symbol)}]

\* Lines 247-255: the DocItem of an entry whose group has a colon
SymbolItem(api_package_name, base_url, e) ==
    DocItem(api_package_name, Split(e.group, ":")[2], base_url,
            Partition(e.relative_doc_url, "#")[1],
            Partition(e.relative_doc_url, "#")[3])

\* Lines 221-257: one iteration of the loops, for entry e.  A symbol with a
\* slash is skipped; a group without a colon has no part [1]: IndexError.
merge_entry(st, api_package_name, base_url, e) ==
    IF Contains(e.symbol, "/")
    THEN [st EXCEPT !.outcome = "continue", !.symbol = Some(e.symbol)]
    ELSE IF Len(Split(e.group, ":")) < 2
    THEN [st EXCEPT !.outcome = "IndexError", !.symbol = Some(e.symbol)]
    ELSE LET group_name == Split(e.group, ":")[2]
             original_symbol == Get(st.doc_symbols, e.symbol)
             merged == IF original_symbol = <<>>
                       THEN [symbol |-> e.symbol,
                             doc_symbols |-> st.doc_symbols,
                             renamed_symbols |-> st.renamed_symbols]
                       ELSE Collide(st, api_package_name, group_name, e.symbol,
                                    original_symbol[1])
             symbol_item == SymbolItem(api_package_name, base_url, e)
             pages == add_item([ps |-> st.ps, ls |-> st.ls], symbol_item)
         IN  [doc_symbols |-> Put(merged.doc_symbols, merged.symbol, symbol_item),
              renamed_symbols |-> merged.renamed_symbols,
              ps |-> pages.ps, ls |-> pages.ls, outcome |-> "merged",
              symbol |-> Some(merged.symbol),
              original_symbol |-> original_symbol,
              symbol_item |-> Some(symbol_item)]

\* Lines 220-257: the loops over a whole inventory; an error ends them
RECURSIVE MergeAll(_, _, _, _)
MergeAll(st, api_package_name, base_url, inventory) ==
    IF inventory = <<>> \/ st.outcome = "IndexError" THEN st
    ELSE MergeAll(merge_entry(st, api_package_name, base_url, Head(inventory)),
                  api_package_name, base_url, Tail(inventory))

\* The frame of call u after the iteration(s) that gave st; the call goes on
\* (more entries to come), returns True (lines 259-260) or raises
Iterated(us, u, st, e, more) ==
    [us EXCEPT ![u].pc = IF st.outcome = "IndexError" THEN "raised"
                         ELSE IF more THEN "merge" ELSE "returned",
               ![u].result = st.outcome # "IndexError" /\ ~more,
               ![u].error = IF st.outcome = "IndexError" THEN "IndexError" ELSE None,
               ![u].n = @ + 1,
               ![u].groups = @ \cup {e.group},
               ![u].entry = Some(e),
               ![u].read = Append(@, e),
               ![u].symbol = st.symbol,
               ![u].original_symbol = st.original_symbol,
               ![u].symbol_item = st.symbol_item]

\* The loops with an await in them: other calls run during a merge
NeverMerging == FALSE

\* An update_single call is in its loops, which have no await: nothing else
\* runs until the call returns or raises
Merging == \E u \in DOMAIN updates : updates[u].pc = "merge"

\* set_command awaits update_single (line 415): when call u of us ends, its
\* caller goes on to ctx.send, or the error leaves set_command.  The calls
\* gathered by refresh_inventory are tasks of their own.
AwaitedUpdate(u, us) ==
    LET c == us[u].owner
    IN  IF c = 0 \/ cmds[c].pc # "update" THEN cmds
        ELSE IF us[u].pc = "raised"
        THEN [cmds EXCEPT ![c].pc = "raised", ![c].error = us[u].error]
        ELSE IF us[u].pc = "returned"
        THEN [cmds EXCEPT ![c].pc = "send"]
        ELSE cmds

\* The lock is released when its holder returns or raises
LockAfter(cs) ==
    IF lock_holder # 0 /\ cs[lock_holder].pc \in {"done", "raised"}
    THEN 0 ELSE lock_holder

\* Lines 205-216: fetch_inventory returned nothing.  The retry is scheduled
\* and the call returns False.
UpdateSingleFailed(u) ==
    /\ u \in DOMAIN updates
    /\ updates[u].pc = "fetch"
    /\ ~Merging
    /\ LET api_package_name == updates[u].package
           inventory_url == updates[u].inventory_url
           delay == IF inventory_url \notin scheduled_inventories
                    THEN 2 * 60 ELSE 5 * 60
           us == [updates EXCEPT
                     ![u].pc = "returned", ![u].result = FALSE,
                     ![u].delay = delay,
                     ![u].failed_before = api_package_name \in scheduled_inventories]
       IN  /\ inventory_scheduler' =
                  schedule_later(inventory_scheduler, delay, api_package_name,
                                 inventory_url)
           /\ scheduled_inventories' = scheduled_inventories \cup {api_package_name}
           /\ updates' = us
           /\ cmds' = AwaitedUpdate(u, us)
           /\ lock_holder' = LockAfter(AwaitedUpdate(u, us))
    /\ UNCHANGED <<parser_vars, REFRESH_EVENT, doc_symbols, renamed_symbols,
                   base_urls, links, retried, fetches, extractions, logged,
                   calls, clears>>

\* Lines 205-260: fetch_inventory returned one of the inventories the site
\* serves.  The whole inventory is merged in this step.
UpdateSingleFetched(u) ==
    /\ u \in DOMAIN updates
    /\ updates[u].pc = "fetch"
    /\ ~Merging
    /\ \E package \in Served(updates[u].inventory_url) :
         LET st == MergeAll(Tables, updates[u].package, updates[u].base_url, package)
             us == [Iterated(updates, u, st, package[Len(package)], FALSE)
                        EXCEPT ![u].n = Len(package), ![u].read = package]
         IN  /\ scheduled_inventories' = scheduled_inventories \ {updates[u].package}
             /\ doc_symbols' = st.doc_symbols
             /\ renamed_symbols' = st.renamed_symbols
             /\ _page_symbols' = st.ps
             /\ lists' = st.ls
             /\ updates' = us
             /\ cmds' = AwaitedUpdate(u, us)
             /\ lock_holder' = LockAfter(AwaitedUpdate(u, us))
    /\ UNCHANGED <<_queue, _item_futures, futures, _parse_task, tasks, doc_cache,
                   REFRESH_EVENT, base_urls, inventory_scheduler, links, retried,
                   fetches, extractions, logged, calls, clears>>

\* The scheduled retry of task_id wakes from its sleep and awaits
\* fetch_inventory(inventory_url), the coroutine given at line 213
RetryWake(task_id) ==
    /\ task_id \in DOMAIN inventory_scheduler
    /\ inventory_scheduler[task_id].pc = "sleep"
    /\ ~Merging
    /\ inventory_scheduler' = [inventory_scheduler EXCEPT ![task_id].pc = "fetch"]
    /\ UNCHANGED <<parser_vars, REFRESH_EVENT, doc_symbols, renamed_symbols,
                   base_urls, scheduled_inventories, lock_holder, links, retried,
                   fetches, extractions, logged, calls, clears, cmds, updates>>

\* fetch_inventory of the retry ends, with nothing or with an inventory: the
\* scheduled task is done and the scheduler forgets it.  Nothing takes the
\* result.
RetryFetched(task_id) ==
    /\ task_id \in DOMAIN inventory_scheduler
    /\ inventory_scheduler[task_id].pc = "fetch"
    /\ ~Merging
    /\ inventory_scheduler' = Without(inventory_scheduler, task_id)
    /\ \E package \in {<<>>} \cup Served(inventory_scheduler[task_id].inventory_url) :
          retried' = IF package = <<>> THEN retried
                     ELSE retried \cup {[package |-> task_id, inventory |-> package]}
    /\ UNCHANGED <<parser_vars, REFRESH_EVENT, doc_symbols, renamed_symbols,
                   base_urls, scheduled_inventories, lock_holder, links,
                   fetches, extractions, logged, calls, clears, cmds, updates>>

-----------------------------------------------------------------------------
(* update_single on its own: calls for the packages, as set_command and     *)
(* refresh_inventory make them.  In the merge the calls get any inventory   *)
(* over Entries, read entry by entry, MaxEntries entries in all; in the     *)
(* retries a fetch fails or gives an inventory the site serves.             *)

RECURSIVE EntriesRead(_)
EntriesRead(u) == IF u = 0 THEN 0 ELSE updates[u].n + EntriesRead(u - 1)

\* Line 204 and the await of line 205
UpdateSingleCall(package) ==
    /\ Len(updates) < MaxUpdates
    /\ ~Merging
    /\ \A u \in DOMAIN updates :
           updates[u].package = package.package => updates[u].pc # "fetch"
    /\ base_urls' = Put(base_urls, package.package, package.base_url)
    /\ updates' = Append(updates, NewUpdate(package, 0))
    /\ UNCHANGED <<parser_vars, REFRESH_EVENT, doc_symbols, renamed_symbols,
                   scheduled_inventories, inventory_scheduler, lock_holder,
                   links, retried, fetches, extractions, logged, calls, clears,
                   cmds>>

\* Lines 205-220: fetch_inventory returned an inventory, which is not empty;
\* the loops begin
UpdateSingleLoop(u) ==
    /\ u \in DOMAIN updates
    /\ updates[u].pc = "fetch"
    /\ ~Merging
    /\ EntriesRead(Len(updates)) < MaxEntries
    /\ scheduled_inventories' = scheduled_inventories \ {updates[u].package}
    /\ updates' = [updates EXCEPT ![u].pc = "merge"]
    /\ UNCHANGED <<parser_vars, REFRESH_EVENT, doc_symbols, renamed_symbols,
                   base_urls, inventory_scheduler, lock_holder, links, retried,
                   fetches, extractions, logged, calls, clears, cmds>>

\* Lines 220-260: one iteration, for the next entry e of the inventory; the
\* entries of one group follow each other.  After the last entry the call
\* returns True.
MergeEntry(u) ==
    /\ u \in DOMAIN updates
    /\ updates[u].pc = "merge"
    /\ \E e \in Entries, more \in BOOLEAN :
         /\ e.group \in updates[u].groups =>
                updates[u].entry # <<>> /\ updates[u].entry[1].group = e.group
         /\ more => EntriesRead(Len(updates)) + 1 < MaxEntries
         /\ LET st == merge_entry([Tables EXCEPT
                                      !.symbol = updates[u].symbol,
                                      !.original_symbol = updates[u].original_symbol,
                                      !.symbol_item = updates[u].symbol_item],
                                  updates[u].package, updates[u].base_url, e)
            IN  /\ doc_symbols' = st.doc_symbols
                /\ renamed_symbols' = st.renamed_symbols
                /\ _page_symbols' = st.ps
                /\ lists' = st.ls
                /\ updates' = Iterated(updates, u, st, e, more)
    /\ UNCHANGED <<_queue, _item_futures, futures, _parse_task, tasks, doc_cache,
                   REFRESH_EVENT, base_urls, scheduled_inventories,
                   inventory_scheduler, lock_holder, links, retried, fetches,
                   extractions, logged, calls, clears, cmds>>

InitUpdate ==
    /\ _queue = <<>>
    /\ _page_symbols = <<>>
    /\ lists = <<>>
    /\ _item_futures = <<>>
    /\ futures = <<>>
    /\ _parse_task = 0
    /\ tasks = <<>>
    /\ doc_cache = {}
    /\ calls = <<>>
    /\ clears = <<>>
    /\ fetches = <<>>
    /\ extractions = <<>>
    /\ logged = {}
    /\ InitCog

\* The merge: calls whose fetch succeeds
NextMerge ==
    \/ \E package \in Packages : UpdateSingleCall(package)
    \/ \E u \in 1..MaxUpdates : UpdateSingleLoop(u)
    \/ \E u \in 1..MaxUpdates : MergeEntry(u)

SpecMerge == InitUpdate /\ [][NextMerge]_vars

\* The retries: calls whose fetch fails or gives an inventory the site serves
NextRetry ==
    \/ \E package \in Packages : UpdateSingleCall(package)
    \/ \E u \in 1..MaxUpdates : UpdateSingleFailed(u)
    \/ \E u \in 1..MaxUpdates : UpdateSingleFetched(u)
    \/ \E package \in Packages : RetryWake(package.package)
    \/ \E package \in Packages : RetryFetched(package.package)

SpecRetry == InitUpdate /\ [][NextRetry]_vars

-----------------------------------------------------------------------------
(* The lock decorator (bot.utils.lock) and the commands                     *)

\* The commands under the lock, refresh_command left out
LockedCommandsButRefresh ==
    {"init_refresh_inventory", "set_command", "delete_command"}

\* The coroutines decorated with lock("doc", COMMAND_LOCK_SINGLETON,
\* raise_error=True): lines 181, 385, 425 and 444
LockedCommands ==
    {"init_refresh_inventory", "set_command", "delete_command", "refresh_command"}

\* lock(namespace, resource_id, raise_error=True): a call made while the
\* resource is held raises LockedResourceError at once; otherwise the caller
\* holds the resource until it returns or raises
Rejected(name) == name \in LockedCommands /\ lock_holder # 0
Acquired(name, c) == IF name \in LockedCommands THEN c ELSE lock_holder

\* The frame of a command: its position, its package argument (<<>>: none),
\* the clear() call its refresh_inventory awaits, the error that left it
NewCommand(name, package) ==
    [name |-> name, package |-> package, pc |-> "start", clear |-> 0,
     error |-> None]

\* A command that arrives while the lock is held
Refused(name, package) ==
    [NewCommand(name, package) EXCEPT !.pc = "raised",
                                      !.error = "LockedResourceError"]

\* Command c is inside refresh_inventory
InRefresh(c) == cmds[c].pc \in {"clear", "api_get", "gather"}

\* The refresh_inventory in progress, 0 when there is none
RefreshInProgress ==
    IF \E c \in DOMAIN cmds : InRefresh(c)
    THEN CHOOSE c \in DOMAIN cmds : InRefresh(c)
    ELSE 0

-----------------------------------------------------------------------------
(* DocCog.refresh_inventory *)

\* Lines 264-276, entered by command c of cs: the gate is closed, the
\* scheduled retries are cancelled, the tables are emptied and clear() runs
\* to its first suspension or to its end
EnterRefresh(c, cs) ==
    LET k == Len(clears) + 1
    IN  /\ REFRESH_EVENT' = FALSE
        /\ inventory_scheduler' =
               [task_id \in DOMAIN inventory_scheduler \ scheduled_inventories |->
                    inventory_scheduler[task_id]]
        /\ base_urls' = <<>>
        /\ doc_symbols' = <<>>
        /\ renamed_symbols' = {}
        /\ scheduled_inventories' = {}
        /\ EnterClear(k, Append(clears, NewClear))
        /\ cmds' = [cs EXCEPT ![c].clear = k,
                              ![c].pc = IF NextPending(1) # 0 THEN "clear"
                                        ELSE "api_get"]
        /\ UNCHANGED <<lists, futures, _parse_task, doc_cache, retried,
                       fetches, extractions, logged, calls, updates>>

\* init_refresh_inventory, line 184: the guild is available
InitGuildAvailable(c) ==
    /\ c \in DOMAIN cmds
    /\ cmds[c].pc = "wait_guild"
    /\ EnterRefresh(c, cmds)
    /\ UNCHANGED <<lock_holder, links>>

\* Line 276: clear() resumes; it suspends again, returns, or its RuntimeError
\* leaves refresh_inventory and the command
RefreshCleared(c) ==
    /\ c \in DOMAIN cmds
    /\ cmds[c].pc = "clear"
    /\ ResumeClear(cmds[c].clear)
    /\ cmds' = [cmds EXCEPT
           ![c].pc = IF clears'[cmds[c].clear].pc = "returned" THEN "api_get"
                     ELSE IF clears'[cmds[c].clear].pc = "raised" THEN "raised"
                     ELSE "clear",
           ![c].error = IF clears'[cmds[c].clear].pc = "raised"
                        THEN "RuntimeError" ELSE None]
    /\ lock_holder' = LockAfter(cmds')
    /\ UNCHANGED <<REFRESH_EVENT, doc_symbols, renamed_symbols, base_urls,
                   scheduled_inventories, inventory_scheduler, links, retried,
                   updates>>

\* The update_single calls of a list of packages, for command c
RECURSIVE Gathered(_, _)
Gathered(packages, c) ==
    IF packages = <<>> THEN <<>>
    ELSE <<NewUpdate(Head(packages), c)>> \o Gathered(Tail(packages), c)

\* Lines 280-285: the API answers; one update_single per package is gathered,
\* and each runs to its fetch (line 204-205)
RefreshGot(c) ==
    /\ c \in DOMAIN cmds
    /\ cmds[c].pc = "api_get"
    /\ updates' = updates \o Gathered(links, c)
    /\ base_urls' = [name \in DOMAIN base_urls \cup
                              {links[i].package : i \in DOMAIN links} |->
                        IF \E i \in DOMAIN links : links[i].package = name
                        THEN (CHOOSE p \in {links[i] : i \in DOMAIN links} :
                                  p.package = name).base_url
                        ELSE base_urls[name]]
    /\ cmds' = [cmds EXCEPT ![c].pc = "gather"]
    /\ UNCHANGED <<parser_vars, REFRESH_EVENT, doc_symbols, renamed_symbols,
                   scheduled_inventories, inventory_scheduler, lock_holder,
                   links, retried, fetches, extractions, logged, calls, clears>>

\* What command c does after refresh_inventory returned: init returns,
\* refresh_command sends its embed, delete_command awaits doc_cache.delete
AfterRefresh(c) ==
    IF cmds[c].name = "init_refresh_inventory" THEN "done"
    ELSE IF cmds[c].name = "refresh_command" THEN "send"
    ELSE "cache_delete"

\* Lines 285-286: gather ends.  When every call has returned, the gate is
\* opened, which wakes the lookups waiting at it; when a call has raised, the
\* error leaves gather, refresh_inventory and the command.
RefreshGathered(c) ==
    /\ c \in DOMAIN cmds
    /\ cmds[c].pc = "gather"
    /\ LET mine == {u \in DOMAIN updates : updates[u].owner = c}
       IN  \/ /\ \E u \in mine : updates[u].pc = "raised"
              /\ cmds' = [cmds EXCEPT ![c].pc = "raised", ![c].error = "IndexError"]
              /\ UNCHANGED <<REFRESH_EVENT, calls>>
           \/ /\ \A u \in mine : updates[u].pc = "returned"
              /\ REFRESH_EVENT' = TRUE
              /\ calls' = [x \in DOMAIN calls |->
                              IF calls[x].pc = "gate"
                              THEN [calls[x] EXCEPT !.pc = "woken"]
                              ELSE calls[x]]
              /\ cmds' = [cmds EXCEPT ![c].pc = AfterRefresh(c)]
    /\ lock_holder' = LockAfter(cmds')
    /\ UNCHANGED <<parser_vars, doc_symbols, renamed_symbols, base_urls,
                   scheduled_inventories, inventory_scheduler, links, retried,
                   fetches, extractions, logged, clears, updates>>

-----------------------------------------------------------------------------
(* The commands *)

\* set_command is received: line 409, the await of api_client.post
SetCommand(package) ==
    /\ Len(cmds) < 1 + MaxCommands
    /\ IF Rejected("set_command")
       THEN /\ cmds' = Append(cmds, Refused("set_command", Some(package)))
            /\ UNCHANGED lock_holder
       ELSE /\ cmds' = Append(cmds, [NewCommand("set_command", Some(package))
                                        EXCEPT !.pc = "api_post"])
            /\ lock_holder' = Acquired("set_command", Len(cmds) + 1)
    /\ UNCHANGED <<parser_vars, REFRESH_EVENT, doc_symbols, renamed_symbols,
                   base_urls, scheduled_inventories, inventory_scheduler, links,
                   retried, fetches, extractions, logged, calls, clears, updates>>

\* The list of the API after a post of package
Posted(packages, package) ==
    IF \E i \in DOMAIN packages : packages[i].package = package.package
    THEN [i \in DOMAIN packages |->
             IF packages[i].package = package.package THEN package ELSE packages[i]]
    ELSE Append(packages, package)

\* Lines 409-415: the API has stored the package; update_single is called
\* and runs to its fetch
SetPosted(c) ==
    /\ c \in DOMAIN cmds
    /\ cmds[c].pc = "api_post"
    /\ links' = Posted(links, cmds[c].package[1])
    /\ base_urls' = Put(base_urls, cmds[c].package[1].package,
                        cmds[c].package[1].base_url)
    /\ updates' = Append(updates, NewUpdate(cmds[c].package[1], c))
    /\ cmds' = [cmds EXCEPT ![c].pc = "update"]
    /\ UNCHANGED <<parser_vars, REFRESH_EVENT, doc_symbols, renamed_symbols,
                   scheduled_inventories, inventory_scheduler, lock_holder,
                   retried, fetches, extractions, logged, calls, clears>>

\* delete_command is received: line 433, the await of api_client.delete
DeleteCommand(package) ==
    /\ Len(cmds) < 1 + MaxCommands
    /\ IF Rejected("delete_command")
       THEN /\ cmds' = Append(cmds, Refused("delete_command", Some(package)))
            /\ UNCHANGED lock_holder
       ELSE /\ cmds' = Append(cmds, [NewCommand("delete_command", Some(package))
                                        EXCEPT !.pc = "api_delete"])
            /\ lock_holder' = Acquired("delete_command", Len(cmds) + 1)
    /\ UNCHANGED <<parser_vars, REFRESH_EVENT, doc_symbols, renamed_symbols,
                   base_urls, scheduled_inventories, inventory_scheduler, links,
                   retried, fetches, extractions, logged, calls, clears, updates>>

\* The list of the API without the package named name
Deleted(packages, name) ==
    IF \E i \in DOMAIN packages : packages[i].package = name
    THEN RemoveAt(packages, CHOOSE i \in DOMAIN packages : packages[i].package = name)
    ELSE packages

\* Lines 433-438: the API has deleted the package; refresh_inventory
DeleteDeleted(c) ==
    /\ c \in DOMAIN cmds
    /\ cmds[c].pc = "api_delete"
    /\ links' = Deleted(links, cmds[c].package[1].package)
    /\ EnterRefresh(c, cmds)
    /\ UNCHANGED lock_holder

\* refresh_command is received: lines 447-449, into refresh_inventory
RefreshCommand ==
    /\ Len(cmds) < 1 + MaxCommands
    /\ IF Rejected("refresh_command")
       THEN /\ cmds' = Append(cmds, Refused("refresh_command", <<>>))
            /\ UNCHANGED <<parser_vars, REFRESH_EVENT, doc_symbols,
                           renamed_symbols, base_urls, scheduled_inventories,
                           inventory_scheduler, lock_holder, links, retried,
                           fetches, extractions, logged, calls, clears, updates>>
       ELSE /\ EnterRefresh(Len(cmds) + 1,
                            Append(cmds, NewCommand("refresh_command", <<>>)))
            /\ lock_holder' = Acquired("refresh_command", Len(cmds) + 1)
            /\ UNCHANGED links

\* clear_cache_command is received: line 468, the await of doc_cache.delete
ClearCacheCommand(package) ==
    /\ Len(cmds) < 1 + MaxCommands
    /\ cmds' = Append(cmds, [NewCommand("clear_cache_command", Some(package))
                                EXCEPT !.pc = "cache_delete"])
    /\ UNCHANGED <<parser_vars, REFRESH_EVENT, doc_symbols, renamed_symbols,
                   base_urls, scheduled_inventories, inventory_scheduler,
                   lock_holder, links, retried, fetches, extractions, logged,
                   calls, clears, updates>>

\* doc_cache.delete(package_name) is done (lines 439 and 468); ctx.send next
CacheDeleted(c) ==
    /\ c \in DOMAIN cmds
    /\ cmds[c].pc = "cache_delete"
    /\ doc_cache' = {item \in doc_cache : item.package # cmds[c].package[1].package}
    /\ cmds' = [cmds EXCEPT ![c].pc = "send"]
    /\ UNCHANGED <<_queue, _page_symbols, lists, _item_futures, futures,
                   _parse_task, tasks, REFRESH_EVENT, doc_symbols,
                   renamed_symbols, base_urls, scheduled_inventories,
                   inventory_scheduler, lock_holder, links, retried, fetches,
                   extractions, logged, calls, clears, updates>>

\* ctx.send is done (lines 416-421, 440, 462, 469-471): the command returns
Sent(c) ==
    /\ c \in DOMAIN cmds
    /\ cmds[c].pc = "send"
    /\ cmds' = [cmds EXCEPT ![c].pc = "done"]
    /\ lock_holder' = LockAfter(cmds')
    /\ UNCHANGED <<parser_vars, REFRESH_EVENT, doc_symbols, renamed_symbols,
                   base_urls, scheduled_inventories, inventory_scheduler, links,
                   retried, fetches, extractions, logged, calls, clears, updates>>

-----------------------------------------------------------------------------
(* DocCog.get_symbol_embed *)

\* The item of a call whose symbol is not in doc_symbols
NoItem == DocItem(<<>>, <<>>, <<>>, <<>>, <<>>)

\* Lines 297-304: get_symbol_embed(symbol) reads doc_symbols; it returns None
\* when the symbol is not there, else it awaits doc_cache.get
GetSymbolEmbed(symbol) ==
    /\ Len(calls) < MaxLookups
    /\ LET symbol_info == Get(doc_symbols, symbol)
           call == IF symbol_info = <<>>
                   THEN [NewCall(NoItem) EXCEPT !.pc = "not_found"]
                   ELSE [NewCall(symbol_info[1]) EXCEPT !.pc = "cache_get"]
       IN  calls' = Append(calls, [call EXCEPT !.symbol = Some(symbol),
                                               !.refresh = RefreshInProgress])
    /\ UNCHANGED <<parser_vars, fetches, extractions, logged, clears>>
    /\ UNCHANGED cog_vars

\* Lines 304-311: doc_cache.get answers.  On a hit the embed is built; on a
\* miss the call waits at the gate when it is closed, else get_markdown is
\* called and runs to its first suspension.
EmbedCacheGot(c) ==
    /\ c \in DOMAIN calls
    /\ calls[c].pc = "cache_get"
    /\ IF calls[c].item \in doc_cache
       THEN /\ calls' = [calls EXCEPT ![c].pc = "embed",
                                      ![c].result = MarkdownOf(calls[c].item)]
            /\ UNCHANGED <<_queue, _item_futures, futures, fetches>>
       ELSE IF ~REFRESH_EVENT
       THEN /\ calls' = [calls EXCEPT ![c].pc = "gate"]
            /\ UNCHANGED <<_queue, _item_futures, futures, fetches>>
       ELSE EnterGetMarkdown(c, calls)
    /\ UNCHANGED <<_page_symbols, lists, _parse_task, tasks, doc_cache, clears,
                   extractions, logged>>
    /\ UNCHANGED cog_vars

\* Lines 310-311: REFRESH_EVENT.wait() returns; get_markdown is called
EmbedGateOpened(c) ==
    /\ c \in DOMAIN calls
    /\ calls[c].pc = "woken"
    /\ EnterGetMarkdown(c, calls)
    /\ UNCHANGED <<_page_symbols, lists, _parse_task, tasks, doc_cache, clears,
                   extractions, logged>>
    /\ UNCHANGED cog_vars

\* Lines 312-325: get_markdown has returned the markdown; doc_cache.set
\* stores it and the embed is built
EmbedCacheSet(c) ==
    /\ c \in DOMAIN calls
    /\ calls[c].pc = "returned"
    /\ calls[c].symbol # <<>>
    /\ doc_cache' = doc_cache \cup {calls[c].item}
    /\ calls' = [calls EXCEPT ![c].pc = "embed"]
    /\ UNCHANGED <<_queue, _page_symbols, lists, _item_futures, futures,
                   _parse_task, tasks, clears, fetches, extractions, logged>>
    /\ UNCHANGED cog_vars

-----------------------------------------------------------------------------
(* The cog: init_refresh_inventory is created by __init__ and holds the     *)
(* lock; lookups and at most MaxCommands commands arrive at any time        *)

\* The symbols looked up: one of each page of libA
LookupSymbols == {Str("bind"), Str("K")}

CommandIds == 1..(1 + MaxCommands)

\* Every refresh_inventory gathers the packages of the API, at most two
UpdateIds == 1..(2 * (1 + MaxCommands))

InitRun ==
    /\ _queue = <<>>
    /\ _page_symbols = <<>>
    /\ lists = <<>>
    /\ _item_futures = <<>>
    /\ futures = <<>>
    /\ _parse_task = 0
    /\ tasks = <<>>
    /\ doc_cache = {}
    /\ calls = <<>>
    /\ clears = <<>>
    /\ fetches = <<>>
    /\ extractions = <<>>
    /\ logged = {}
    /\ REFRESH_EVENT = TRUE
    /\ doc_symbols = <<>>
    /\ renamed_symbols = {}
    /\ base_urls = <<>>
    /\ scheduled_inventories = {}
    /\ inventory_scheduler = <<>>
    /\ retried = {}
    /\ updates = <<>>
    /\ links = <<PkgA, PkgPy>>
    /\ cmds = <<[NewCommand("init_refresh_inventory", <<>>)
                    EXCEPT !.pc = "wait_guild"]>>
    /\ lock_holder = 1

NextCog ==
    \/ \E c \in CommandIds : InitGuildAvailable(c)
    \/ SetCommand(PkgA)
    \/ DeleteCommand(PkgA)
    \/ RefreshCommand
    \/ ClearCacheCommand(PkgA)
    \/ \E c \in CommandIds : SetPosted(c)
    \/ \E c \in CommandIds : DeleteDeleted(c)
    \/ \E c \in CommandIds : RefreshCleared(c)
    \/ \E c \in CommandIds : RefreshGot(c)
    \/ \E c \in CommandIds : RefreshGathered(c)
    \/ \E c \in CommandIds : CacheDeleted(c)
    \/ \E c \in CommandIds : Sent(c)
    \/ \E u \in UpdateIds : UpdateSingleFailed(u)
    \/ \E u \in UpdateIds : UpdateSingleFetched(u)
    \/ \E package \in Packages : RetryWake(package.package)
    \/ \E package \in Packages : RetryFetched(package.package)
    \/ \E symbol \in LookupSymbols : GetSymbolEmbed(symbol)
    \/ \E c \in 1..MaxLookups : EmbedCacheGot(c)
    \/ \E c \in 1..MaxLookups : EmbedGateOpened(c)
    \/ \E c \in 1..MaxLookups : EmbedCacheSet(c)
    \/ \E c \in 1..MaxLookups : GetMarkdownFetched(c)
    \/ \E c \in 1..MaxLookups : GetMarkdownFetchFailed(c)
    \/ \E c \in 1..MaxLookups : GetMarkdownReturn(c)
    \/ \E t \in 1..MaxLookups : ParseQueueStep(t)
    \/ \E t \in 1..MaxLookups : ParseQueueCacheSet(t)

SpecCog == InitRun /\ [][NextCog]_vars

\* The commands on their own: no lookup is made, so that clear() finds no
\* future to await, and the scheduled retries stay asleep
NextCommands ==
    \/ \E c \in CommandIds : InitGuildAvailable(c)
    \/ SetCommand(PkgA)
    \/ DeleteCommand(PkgA)
    \/ RefreshCommand
    \/ ClearCacheCommand(PkgA)
    \/ \E c \in CommandIds : SetPosted(c)
    \/ \E c \in CommandIds : DeleteDeleted(c)
    \/ \E c \in CommandIds : RefreshGot(c)
    \/ \E c \in CommandIds : RefreshGathered(c)
    \/ \E c \in CommandIds : CacheDeleted(c)
    \/ \E c \in CommandIds : Sent(c)
    \/ \E u \in UpdateIds : UpdateSingleFailed(u)
    \/ \E u \in UpdateIds : UpdateSingleFetched(u)

SpecCommands == InitRun /\ [][NextCommands]_vars

-----------------------------------------------------------------------------
(* Claims about the parser *)

Alive(t) == tasks[t].pc # "finished"

\* C1 (page batching): as long as clear() is not called and the worker logs
\* no error, no page is requested more than once, no get_markdown call fails except by a failed page
\* request, and a call that returns has the markdown of its own symbol.
C1_PageBatching ==
    (clears = <<>> /\ logged = {}) =>
        \A c \in DOMAIN calls :
            /\ Count(fetches, url(calls[c].item)) <= 1
            /\ calls[c].pc = "raised" => calls[c].error = "ClientError"
            /\ calls[c].pc = "returned" => calls[c].result = MarkdownOf(calls[c].item)

\* C2 (single-flight): as long as clear() is not called, the worker logs no
\* error and no page is requested twice, a get_markdown(x) call that began while another call for
\* x was unresolved does not fail, x is extracted at most once, and the calls
\* for x that return have the same result.
C2_SingleFlight ==
    (clears = <<>> /\ logged = {} /\ \A u \in DOMAIN fetches : fetches[u] <= 1) =>
        \A c \in DOMAIN calls :
            calls[c].overlapped =>
                /\ Count(extractions, calls[c].item) <= 1
                /\ calls[c].pc # "raised"
                /\ \A d \in DOMAIN calls :
                       (/\ calls[d].item = calls[c].item
                        /\ calls[d].pc = "returned"
                        /\ calls[c].pc = "returned")
                       => calls[d].result = calls[c].result

\* C3 (single worker): at most one _parse_queue task is alive.
C3_SingleWorker ==
    Cardinality({t \in DOMAIN tasks : Alive(t)}) <= 1

\* C3 witness: a second worker was created after the first one finished, and
\* clear() has run.
C3_Witness ==
    /\ Len(tasks) = 2
    /\ ~Alive(1)
    /\ Alive(2)
    /\ \E k \in DOMAIN clears : clears[k].pc = "returned"

\* C4 (no stranded work): whenever a get_markdown call comes to wait on a
\* future that is not done while _queue is not empty, a worker task is alive.
C4_NoStrandedWork ==
    [][\A c \in 1..MaxCalls :
          (/\ c \in DOMAIN calls'
           /\ calls'[c].pc = "await"
           /\ ~futures'[calls'[c].fut].done
           /\ (c \in DOMAIN calls => calls[c].pc # "await")
           /\ _queue' # <<>>)
          => \E t \in DOMAIN tasks' : tasks'[t].pc # "finished"]_vars

-----------------------------------------------------------------------------
(* Claims about the cog *)

\* C5 (one refresh at a time): at most one command is inside
\* refresh_inventory; a command of init_refresh_inventory, set_command,
\* delete_command and refresh_command that has not returned or raised holds
\* the lock, so no two of them run at once; a command that raised
\* LockedResourceError did so on arrival (it never entered refresh_inventory
\* and made no update_single call).
C5_OneRefresh ==
    /\ Cardinality({c \in DOMAIN cmds : InRefresh(c)}) <= 1
    /\ \A c \in DOMAIN cmds :
          (/\ cmds[c].name \in {"init_refresh_inventory", "set_command",
                                "delete_command", "refresh_command"}
           /\ cmds[c].pc \notin {"done", "raised"})
          => lock_holder = c
    /\ \A c \in DOMAIN cmds :
          cmds[c].error = "LockedResourceError" =>
              /\ cmds[c].pc = "raised"
              /\ cmds[c].clear = 0
              /\ \A u \in DOMAIN updates : updates[u].owner # c

\* C5 witness: a refresh_command arrived while another command was inside
\* refresh_inventory, suspended in asyncio.gather, and was refused.
C5_Witness ==
    \E c, d \in DOMAIN cmds :
        /\ cmds[c].pc = "gather"
        /\ lock_holder = c
        /\ cmds[d].name = "refresh_command"
        /\ cmds[d].error = "LockedResourceError"

\* C6 (the gate is reopened): the gate is closed only while a
\* refresh_inventory is in progress, so that the refresh that closed it is
\* there to open it again.
C6_GateReopened ==
    ~REFRESH_EVENT => \E c \in DOMAIN cmds : InRefresh(c)

\* C7 (gate closure): when a refresh_inventory opens the gate, no
\* get_symbol_embed call that read doc_symbols during that refresh has ended
\* with None for a symbol that the rebuilt table has.
C7_GateClosure ==
    [][(~REFRESH_EVENT /\ REFRESH_EVENT') =>
          \A c \in DOMAIN calls :
              (/\ calls[c].pc = "not_found"
               /\ calls[c].refresh # 0
               /\ cmds[calls[c].refresh].pc = "gather")
              => calls[c].symbol[1] \notin DOMAIN doc_symbols']_vars

-----------------------------------------------------------------------------
(* Claims about update_single *)

\* The entry has no slash in its name and a colon in its group: it is merged
WellFormed(e) == ~Contains(e.symbol, "/") /\ Len(Split(e.group, ":")) >= 2

\* C8 (retry backoff): an update_single call whose fetch failed scheduled its
\* retry with a delay of 2 minutes when the package had not failed before,
\* and of 5 minutes when it had failed before with no successful fetch and no
\* refresh since.
C8_RetryBackoff ==
    \A u \in DOMAIN updates :
        (updates[u].pc = "returned" /\ ~updates[u].result) =>
            updates[u].delay = IF updates[u].failed_before THEN 5 * 60 ELSE 2 * 60

\* C9 (the retry re-runs the update): once the scheduled retry of a package
\* has fetched the inventory and no update_single call for the package is
\* under way, every well-formed entry of that inventory is in doc_symbols.
C9_RetryMerges ==
    \A r \in retried :
        (\A u \in DOMAIN updates :
            updates[u].package = r.package => updates[u].pc \in {"returned", "raised"})
        => \A i \in DOMAIN r.inventory :
              WellFormed(r.inventory[i]) =>
                  \E name \in DOMAIN doc_symbols :
                      doc_symbols[name] =
                          SymbolItem(r.package, base_urls[r.package], r.inventory[i])

\* C10 (collision rule A): a step of update_single that merges an entry whose
\* raw name has an incumbent and whose kind is in FORCE_PREFIX_GROUPS leaves
\* the incumbent under the raw name, stores the new entry's item under
\* "<kind>.<raw name>" and has that name in renamed_symbols, whatever the
\* incumbent's kind and package are.
C10_RuleA ==
    [][\A u \in DOMAIN updates :
          (/\ updates[u].pc = "merge"
           /\ updates'[u] # updates[u]
           /\ WellFormed(updates'[u].entry[1])
           /\ updates'[u].entry[1].symbol \in DOMAIN doc_symbols
           /\ Split(updates'[u].entry[1].group, ":")[2] \in FORCE_PREFIX_GROUPS)
          => LET e == updates'[u].entry[1]
                 composite == Dotted(Split(e.group, ":")[2], e.symbol)
             IN  /\ doc_symbols'[e.symbol] = doc_symbols[e.symbol]
                 /\ composite \in DOMAIN doc_symbols'
                 /\ doc_symbols'[composite] =
                        SymbolItem(updates[u].package, updates[u].base_url, e)
                 /\ composite \in renamed_symbols']_vars

\* C10 witness: a priority package has merged an entry of a forced kind whose
\* raw name had an incumbent of a forced kind from another package (the case
\* of rules B and C as well), and the new item is under the composite name.
C10_Witness ==
    \E u \in DOMAIN updates :
        /\ updates[u].pc \in {"merge", "returned"}
        /\ updates[u].entry # <<>>
        /\ WellFormed(updates[u].entry[1])
        /\ Split(updates[u].entry[1].group, ":")[2] \in FORCE_PREFIX_GROUPS
        /\ updates[u].package \in PRIORITY_PACKAGES
        /\ updates[u].original_symbol # <<>>
        /\ updates[u].original_symbol[1].group \in FORCE_PREFIX_GROUPS
        /\ updates[u].original_symbol[1].package # updates[u].package
        /\ updates[u].symbol =
               Some(Dotted(Split(updates[u].entry[1].group, ":")[2],
                           updates[u].entry[1].symbol))
        /\ doc_symbols[updates[u].symbol[1]] = updates[u].symbol_item[1]
        /\ doc_symbols[updates[u].entry[1].symbol] = updates[u].original_symbol[1]

\* An update_single call u takes a step of its loops
MergeStep(u) == updates[u].pc = "merge" /\ updates'[u] # updates[u]

\* C11 (collision rule C): a step of update_single that merges, for a package
\* of PRIORITY_PACKAGES, an entry whose raw name has an incumbent of another
\* package, neither kind being in FORCE_PREFIX_GROUPS, stores the new item
\* under the raw name and the incumbent under "<incumbent.package>.<raw
\* name>", and has both names in renamed_symbols.
C11_RuleC ==
    [][\A u \in DOMAIN updates :
          (/\ MergeStep(u)
           /\ WellFormed(updates'[u].entry[1])
           /\ updates'[u].entry[1].symbol \in DOMAIN doc_symbols
           /\ updates[u].package \in PRIORITY_PACKAGES
           /\ doc_symbols[updates'[u].entry[1].symbol].package # updates[u].package
           /\ Split(updates'[u].entry[1].group, ":")[2] \notin FORCE_PREFIX_GROUPS
           /\ doc_symbols[updates'[u].entry[1].symbol].group \notin FORCE_PREFIX_GROUPS)
          => LET e == updates'[u].entry[1]
                 incumbent == doc_symbols[e.symbol]
                 alternate == Dotted(incumbent.package, e.symbol)
             IN  /\ doc_symbols'[e.symbol] =
                        SymbolItem(updates[u].package, updates[u].base_url, e)
                 /\ alternate \in DOMAIN doc_symbols'
                 /\ doc_symbols'[alternate] = incumbent
                 /\ e.symbol \in renamed_symbols'
                 /\ alternate \in renamed_symbols']_vars


\* The most entries the inventories of the colliding names hold together
MaxCollisions == 5

\* Entries of three kinds whose names collide: a function named "label.bind",
\* and a label and a class named "bind"
CollisionEntries ==
    {Entry(PyFunction, <<"label", ".", "bind">>, RelativeUrl(<<"label", ".", "bind">>)),
     Entry(StdLabel, Str("bind"), RelativeUrl(Str("bind"))),
     Entry(PyClass, Str("bind"), RelativeUrl(Str("bind")))}

\* Lines 220-260: one iteration, for the next entry e of an inventory of
\* colliding names
MergeCollision(u) ==
    /\ u \in DOMAIN updates
    /\ updates[u].pc = "merge"
    /\ \E e \in CollisionEntries, more \in BOOLEAN :
         /\ e.group \in updates[u].groups =>
                updates[u].entry # <<>> /\ updates[u].entry[1].group = e.group
         /\ more => EntriesRead(Len(updates)) + 1 < MaxCollisions
         /\ LET st == merge_entry([Tables EXCEPT
                                      !.symbol = updates[u].symbol,
                                      !.original_symbol = updates[u].original_symbol,
                                      !.symbol_item = updates[u].symbol_item],
                                  updates[u].package, updates[u].base_url, e)
            IN  /\ doc_symbols' = st.doc_symbols
                /\ renamed_symbols' = st.renamed_symbols
                /\ _page_symbols' = st.ps
                /\ lists' = st.ls
                /\ updates' = Iterated(updates, u, st, e, more)
    /\ UNCHANGED <<_queue, _item_futures, futures, _parse_task, tasks, doc_cache,
                   REFRESH_EVENT, base_urls, scheduled_inventories,
                   inventory_scheduler, lock_holder, links, retried, fetches,
                   extractions, logged, calls, clears, cmds>>

\* The merge of inventories of colliding names
NextCollide ==
    \/ \E package \in Packages : UpdateSingleCall(package)
    \/ \E u \in 1..MaxUpdates : UpdateSingleLoop(u)
    \/ \E u \in 1..MaxUpdates : MergeCollision(u)

SpecCollide == InitUpdate /\ [][NextCollide]_vars

\* C12 (collision rule B): a step of update_single that merges an entry whose
\* kind is not in FORCE_PREFIX_GROUPS and whose raw name has an incumbent of a
\* kind in FORCE_PREFIX_GROUPS stores the incumbent under
\* "<incumbent.kind>.<raw name>", or under "<new package>.<incumbent.kind>.<raw
\* name>" when the former is in renamed_symbols, has that name in
\* renamed_symbols, stores the new item under the raw name, and leaves the
\* table entry of every other name that was in renamed_symbols as it was.
C12_RuleB ==
    [][\A u \in DOMAIN updates :
          (/\ MergeStep(u)
           /\ WellFormed(updates'[u].entry[1])
           /\ updates'[u].entry[1].symbol \in DOMAIN doc_symbols
           /\ Split(updates'[u].entry[1].group, ":")[2] \notin FORCE_PREFIX_GROUPS
           /\ doc_symbols[updates'[u].entry[1].symbol].group \in FORCE_PREFIX_GROUPS)
          => LET e == updates'[u].entry[1]
                 incumbent == doc_symbols[e.symbol]
                 candidate == Dotted(incumbent.group, e.symbol)
                 overridden_symbol ==
                     IF candidate \in renamed_symbols
                     THEN Dotted(updates[u].package, candidate)
                     ELSE candidate
             IN  /\ overridden_symbol \in DOMAIN doc_symbols'
                 /\ doc_symbols'[overridden_symbol] = incumbent
                 /\ overridden_symbol \in renamed_symbols'
                 /\ doc_symbols'[e.symbol] =
                        SymbolItem(updates[u].package, updates[u].base_url, e)
                 /\ \A name \in (renamed_symbols \cap DOMAIN doc_symbols) \ {e.symbol} :
                        doc_symbols'[name] = doc_symbols[name]]_vars


\* C13 (malformed group): an update_single call that has read an entry whose
\* group has no colon has skipped it: the call has not raised, and goes on
\* with the next entry or has returned True.
C13_MalformedSkipped ==
    \A u \in DOMAIN updates :
        (/\ updates[u].entry # <<>>
         /\ ~Contains(updates[u].entry[1].symbol, "/")
         /\ Len(Split(updates[u].entry[1].group, ":")) < 2)
        => /\ updates[u].pc \in {"merge", "returned"}
           /\ updates[u].error = None
           /\ updates[u].pc = "returned" => updates[u].result


\* The cache is empty and no worker is left running: _parse_task is None or
\* its task has finished or is cancelled
Cleared ==
    /\ _queue = <<>>
    /\ _page_symbols = <<>>
    /\ _item_futures = <<>>
    /\ _parse_task # 0 =>
           ~Alive(_parse_task) \/ tasks[_parse_task].must_cancel

\* Call k of clear() returns in this step
ClearReturns(k) ==
    /\ k \in DOMAIN clears'
    /\ clears'[k].pc = "returned"
    /\ k \in DOMAIN clears => clears[k].pc # "returned"

\* C14 (idempotent clear): a step in which a clear() call returns leaves
\* _queue, _page_symbols and _item_futures empty and no worker running; and
\* clear() called on such a cache, an empty one or one a clear() call has just
\* left, returns at once and changes nothing of the parser.
C14_IdempotentClear ==
    [][/\ \A k \in 1..MaxClears : ClearReturns(k) => Cleared'
       /\ (Cleared /\ Len(clears') = Len(clears) + 1)
              => /\ ClearReturns(Len(clears'))
                 /\ UNCHANGED parser_vars]_vars

\* C14 witness: two clear() calls have returned, the first of which cancelled
\* a worker that had items left, and the cache is as the first call left it
C14_Witness ==
    /\ Len(clears) = 2
    /\ \A k \in DOMAIN clears : clears[k].pc = "returned"
    /\ Cleared
    /\ _parse_task # 0
    /\ tasks[_parse_task].must_cancel
    /\ Alive(_parse_task)


\* C15 (reprioritization of an absent location): a get_markdown call whose
\* page was fetched before and whose item the worker has taken from _queue
\* and resolved raises no error at _move_to_front (line 110): it returns
\* the markdown the item's future holds.
C15_AbsentNoOp ==
    [][\A c \in 1..MaxCalls :
          (/\ c \notin DOMAIN calls
           /\ c \in DOMAIN calls'
           /\ url(calls'[c].item) \notin DOMAIN _page_symbols
           /\ Index(_queue, calls'[c].item) = 0
           /\ FutureOf(_item_futures, calls'[c].item) # 0
           /\ futures[FutureOf(_item_futures, calls'[c].item)].done)
          => /\ calls'[c].error = None
             /\ calls'[c].result =
                    futures[FutureOf(_item_futures, calls'[c].item)].result]_vars


\* C16 (get_markdown racing clear()): when a get_markdown call that was
\* suspended in its page request while clear() emptied the cache resumes, it
\* raises an error and leaves _queue, _page_symbols and _item_futures as they
\* are: nothing read before the clear is put into them.
C16_RaceFailsFast ==
    [][\A c \in 1..MaxCalls :
          (/\ c \in DOMAIN calls
           /\ calls[c].pc = "fetch"
           /\ calls'[c].pc # "fetch"
           /\ Count(fetches, url(calls[c].item)) = 1
           /\ url(calls[c].item) \notin DOMAIN _page_symbols
           /\ \E k \in DOMAIN clears : clears[k].pc = "returned")
          => /\ calls'[c].pc = "raised"
             /\ _queue' = _queue
             /\ _page_symbols' = _page_symbols
             /\ _item_futures' = _item_futures]_vars


\* C17 (no duplicates in the queue): no two positions of _queue hold the same
\* item.
C17_QueueDistinct ==
    \A i, j \in DOMAIN _queue :
        _queue[i].symbol = _queue[j].symbol => i = j


\* The worker takes an item from _queue in this step (line 125)
Pops == _queue # <<>> /\ _queue' = SubSeq(_queue, 1, Len(_queue) - 1)

\* Some get_markdown call asked for item and its future is not resolved
Requested(item) ==
    /\ FutureOf(_item_futures, item) # 0
    /\ ~futures[FutureOf(_item_futures, item)].done

\* C18 (most recently requested first): as long as clear() is not called and
\* no page is requested twice, the worker takes an item nobody requested
\* only when no requested item is left in _queue.
C18_RequestedFirst ==
    [][(/\ Pops
        /\ clears = <<>>
        /\ \A page \in DOMAIN fetches : fetches[page] <= 1
        /\ ~Requested(_queue[Len(_queue)].symbol))
       => \A i \in DOMAIN _queue' : ~Requested(_queue'[i].symbol)]_vars


\* The tables before any merge
EmptyTables ==
    [doc_symbols |-> <<>>, renamed_symbols |-> {}, ps |-> <<>>, ls |-> <<>>,
     outcome |-> "none", symbol |-> <<>>, original_symbol |-> <<>>,
     symbol_item |-> <<>>]

\* The tables after the calls order[i], order[i + 1], ... have merged what
\* they read, one whole call after the other, beginning with the tables st
RECURSIVE Serial(_, _, _)
Serial(order, i, st) ==
    IF i > Len(order) THEN st
    ELSE Serial(order, i + 1,
                MergeAll([st EXCEPT !.outcome = "none"],
                         updates[order[i]].package, updates[order[i]].base_url,
                         updates[order[i]].read))

\* The orders in which the update_single calls can be taken
Orders ==
    {order \in [DOMAIN updates -> DOMAIN updates] :
        \A i, j \in DOMAIN updates : order[i] = order[j] => i = j}

\* The tables are those of the calls' merges taken whole in some order
Serialized ==
    \E order \in Orders :
        /\ Serial(order, 1, EmptyTables).doc_symbols = doc_symbols
        /\ Serial(order, 1, EmptyTables).renamed_symbols = renamed_symbols

\* C19 (merges never interleave): while an update_single call is in its
\* loops no other call takes a step and no call begins, and doc_symbols and
\* renamed_symbols are always what the calls' merges give when they are
\* applied one whole package after the other in some order.
C19_MergesSerialized ==
    /\ []Serialized
    /\ [][\A u \in DOMAIN updates :
             updates[u].pc = "merge" =>
                 /\ DOMAIN updates' = DOMAIN updates
                 /\ \A v \in DOMAIN updates \ {u} : updates'[v] = updates[v]]_vars

\* C19 witness: two calls for different packages are under way at once, one
\* in its loops with an entry merged and more to come, the other waiting for
\* its inventory
C19_Witness ==
    \E u, v \in DOMAIN updates :
        /\ updates[u].pc = "merge"
        /\ updates[u].read # <<>>
        /\ updates[v].pc = "fetch"
        /\ updates[v].package # updates[u].package


\* The parser under fair scheduling: a page request that can complete does,
\* a coroutine whose future is done runs, the worker task takes its steps
SpecParserFair ==
    /\ SpecParser
    /\ WF_vars(\E c \in 1..MaxCalls : GetMarkdownFetched(c))
    /\ WF_vars(\E c \in 1..MaxCalls : GetMarkdownReturn(c))
    /\ WF_vars(\E t \in 1..MaxCalls : ParseQueueStep(t))
    /\ WF_vars(\E t \in 1..MaxCalls : ParseQueueCacheSet(t))
    /\ WF_vars(\E k \in 1..MaxClears : ClearResume(k))

\* No page request, extraction or cache write has failed and clear() has not
\* been called
NothingFailed ==
    /\ logged = {}
    /\ clears = <<>>
    /\ \A c \in DOMAIN calls : calls[c].error # "ClientError"

\* C20 (every call returns): under fair scheduling, every get_markdown call
\* eventually returns the markdown of its item, unless a page request, an
\* extraction or a cache write fails or clear() is called.
C20_EventuallyReturns ==
    \A c \in 1..MaxCalls :
        [](c \in DOMAIN calls =>
              <>(\/ ~NothingFailed
                 \/ /\ c \in DOMAIN calls
                    /\ calls[c].pc = "returned"
                    /\ calls[c].result = MarkdownOf(calls[c].item)))


\* The DocItems doc_symbols holds under some name
Reachable == {doc_symbols[name] : name \in DOMAIN doc_symbols}

\* C21 (no merged symbol becomes unreachable): as long as every package is
\* merged by one update_single call only, the item of every entry a call has
\* merged (read, without a slash in its name, its group having a colon) is
\* the value of some name of doc_symbols.
C21_StillReachable ==
    (\A u, v \in DOMAIN updates :
        updates[u].package = updates[v].package => u = v)
    => \A u \in DOMAIN updates :
          \A i \in DOMAIN updates[u].read :
              WellFormed(updates[u].read[i]) =>
                  SymbolItem(updates[u].package, updates[u].base_url,
                             updates[u].read[i]) \in Reachable

=============================================================================
